---- MODULE Spec2Model ----
(***************************************************************************)
(* A model of the user-written code of the RAPIDS example notebooks:       *)
(*   - cudf/notebooks_Apply_Operations_in_cuDF.ipynb: the array-double     *)
(*     kernels run by apply_rows / apply_chunks / pandas apply, and the    *)
(*     two-pass moving average (kernel1, kernel2);                         *)
(*   - cugraph/Weighted-Jaccard.ipynb: the bestEdge search loop;           *)
(*   - cuml/coordinate_descent_demo.ipynb: load_data, mortgage branch.     *)
(*                                                                         *)
(* A column is a function 0..n-1 -> value.  A float64 is modelled as an    *)
(* exact fraction <<num, den>>: x*2.0 is <<2x, 1>>, summ/float64(w) is     *)
(* <<summ, w>> and np.inf is <<1, 0>>.  Rounding is not modelled.          *)
(*                                                                         *)
(* A kernel launch is a grid of blocks (one per chunk) of blockDim         *)
(* threads.  Every thread is a process; one step of the model is one       *)
(* iteration of one thread's loop (one store), taken in any order.         *)
(***************************************************************************)
EXTENDS Integers, Sequences, FiniteSets, TLC

VARIABLES
    phase,      \* position of the notebook cell (which call is running)
    n,          \* data_length: number of rows of the frame
    aw,         \* average_window (kwargs average_length)
    trunk,      \* trunk_size (moving average) / chunks=<int> (array double)
    tpb,        \* threads per block (cuda.blockDim.x)
    in1,        \* df['in1']
    out,        \* df['out'] (device buffer of n elements)
    junk,       \* what a freshly allocated, unwritten element holds
    chunks,     \* the launch's chunk leading offsets (1-based sequence)
    pos,        \* per thread <<block, tid>>: <<loop, i>> it is about to run
    log,        \* stores of the running launch: <<block, tid, global index>>
    snap,       \* out columns kept after each finished call
    df,         \* cugraph result frame: sequence of [source, destination, jaccard_coeff]
    bestEdge,   \* Weighted-Jaccard: best row so far (0-based)
    row,        \* Weighted-Jaccard: loop variable i
    printed,    \* Weighted-Jaccard: what the print statement showed
    X,          \* load_data: the feature matrix (sequence of rows)
    y,          \* load_data: the label matrix (sequence of rows)
    file,       \* load_data: the array stored in data/mortgage.npy.gz
    args,       \* load_data: the arguments [nrows, ncols]
    rindices,   \* load_data: the sampled row indices
    ret         \* load_data: the returned frames

vars == <<phase, n, aw, trunk, tpb, in1, out, junk, chunks, pos, log, snap,
          df, bestEdge, row, printed, X, y, file, args, rindices, ret>>

cudfVars == <<n, aw, trunk, tpb, in1, out, junk, chunks, pos, log, snap>>
graphVars == <<df, bestEdge, row, printed>>
loadVars == <<X, y, file, args, rindices, ret>>

(***************************************************************************)
(* Bounds of the model.                                                    *)
(***************************************************************************)
MaxWindow == 3      \* average_window ranges over 1..MaxWindow
MaxSlack == 1       \* trunk_size ranges over 2*aw .. 2*aw + MaxSlack
MaxLen == 9         \* data_length ranges up to MaxLen
MaxTpb == 3         \* threads per block range over 1..MaxTpb
MaxRows == 5        \* array double: the column has 1..MaxRows rows
MaxBlocks == 2      \* array double: apply_rows runs 1..MaxBlocks blocks
MaxEdges == 4       \* Weighted-Jaccard: the result frame has 1..MaxEdges rows
MaxScore == 2       \* Weighted-Jaccard: jaccard_coeff ranges over 0..MaxScore
MaxFileRows == 3    \* load_data: the stored array has 2..MaxFileRows rows
MaxFileCols == 7    \* load_data: the stored array has 6..MaxFileCols columns
MaxSample == 2      \* load_data: nrows ranges over 1..MaxSample

(***************************************************************************)
(* float64 values.                                                         *)
(***************************************************************************)
Inf == <<1, 0>>
Num(x) == <<x, 1>>
Div(summ, w) == <<summ, w>>
FEq(a, b) == a[2] = b[2] /\ a[1] = b[1]
IsInf(a) == a[2] = 0

\* np.arange(n, dtype=float64) and a second column whose windows all differ
Arange(len) == [i \in 0..(len - 1) |-> i]
Squares(len) == [i \in 0..(len - 1) |-> i * i + 1]
InputColumns(len) == {Arange(len), Squares(len)}
GarbageValues == {Num(0), Num(-1)}

(***************************************************************************)
(* apply_chunks: chunk offsets, blocks and threads.                        *)
(***************************************************************************)
\* list(range(lo, hi, step)) as a 1-based sequence
RangeList(lo, hi, step) ==
    [k \in 1..(IF hi > lo THEN (hi - lo + step - 1) \div step ELSE 0)
        |-> lo + (k - 1) * step]

\* chunks=list(range(0, data_length, trunk_size)) + [data_length]
Kernel1Chunks == RangeList(0, n, trunk) \o <<n>>

\* chunks=[0] + list(range(average_window, data_length, trunk_size)) + [data_length]
Kernel2Chunks == <<0>> \o RangeList(aw, n, trunk) \o <<n>>

\* A chunk spans from its leading offset to the next offset, or to the end
\* of the column for the last offset; block b of the launch gets chunk b.
ChunkStart(cs, b) == cs[b]
ChunkStop(cs, b) == IF b < Len(cs) THEN cs[b + 1] ELSE n
ChunkSize(cs, b) == ChunkStop(cs, b) - ChunkStart(cs, b)

Threads(cs) == (1..Len(cs)) \X (0..(tpb - 1))

Ret == <<"ret", 0>>
Running(th) == pos[th][1] # "ret"
AllReturned == \A th \in DOMAIN pos : ~Running(th)

\* outcols=dict(out=np.float64): a new, unwritten buffer of n elements
NewColumn == [i \in 0..(n - 1) |-> junk]

(***************************************************************************)
(* A store out[i] = v by thread t of block b.  out is the chunk's slice of *)
(* the buffer, so the element is start+i; device code checks no bounds.    *)
(* A store past the last element of the buffer is undefined: it lands in   *)
(* memory that is not the column, or the launch fails.                     *)
(***************************************************************************)
Store(b, t, i, v) ==
    LET g == ChunkStart(chunks, b) + i IN
    /\ log' = log \cup {<<b, t, g>>}
    /\ \/ /\ g \in 0..(n - 1)
          /\ out' = [out EXCEPT ![g] = v]
          /\ UNCHANGED phase
       \/ /\ g \notin 0..(n - 1)
          /\ UNCHANGED <<out, phase>>
       \/ /\ g \notin 0..(n - 1)
          /\ phase' = "fault"
          /\ UNCHANGED out

(***************************************************************************)
(* kernel1 and kernel2 of the moving average.                              *)
(***************************************************************************)
\* summ = 0.0; for j in range(lo, hi + 1): summ += in1[j]   (in1: chunk slice)
RECURSIVE WindowSum(_, _, _, _)
WindowSum(col, base, lo, hi) ==
    IF lo > hi THEN 0
    ELSE WindowSum(col, base, lo, hi - 1) + col[base + hi]

\* second loop of kernel1: range(tid + average_length - 1, in1.size, blockDim)
Kernel1AvgAt(cs, b, i) == IF i < ChunkSize(cs, b) THEN <<"avg", i>> ELSE Ret

\* a first loop that runs one element too far: range(tid, average_length, blockDim)
Kernel1FillAtOffByOne(cs, b, t, i) ==
    IF i < aw THEN <<"fill", i>> ELSE Kernel1AvgAt(cs, b, t + aw - 1)

\* first loop of kernel1: range(tid, average_length - 1, blockDim)
Kernel1FillAt(cs, b, t, i) ==
    IF i < aw - 1 THEN <<"fill", i>> ELSE Kernel1AvgAt(cs, b, t + aw - 1)

Kernel1Entry(cs, b, t) == Kernel1FillAt(cs, b, t, t)

\* loop of kernel2: range(in1.size - average_length + tid, in1.size, blockDim)
Kernel2AvgAt(cs, b, i) == IF i < ChunkSize(cs, b) THEN <<"avg", i>> ELSE Ret

\* the early return of kernel2
Kernel2Guard(size, t) == size - aw + t - aw + 1 < 0

Kernel2Entry(cs, b, t) ==
    IF Kernel2Guard(ChunkSize(cs, b), t) THEN Ret
    ELSE Kernel2AvgAt(cs, b, ChunkSize(cs, b) - aw + t)

\* out[i] = summ / np.float64(average_length)
WindowMean(b, i) ==
    Div(WindowSum(in1, ChunkStart(chunks, b), i - aw + 1, i), aw)

ApplyChunksKernel1 ==
    /\ phase = "start"
    /\ phase' = "kernel1"
    /\ out' = NewColumn
    /\ chunks' = Kernel1Chunks
    /\ pos' = [th \in Threads(Kernel1Chunks) |-> Kernel1Entry(Kernel1Chunks, th[1], th[2])]
    /\ log' = {}
    /\ UNCHANGED <<n, aw, trunk, tpb, in1, junk, snap, graphVars, loadVars>>

Kernel1Fill(b, t) ==
    /\ phase = "kernel1"
    /\ pos[<<b, t>>][1] = "fill"
    /\ Store(b, t, pos[<<b, t>>][2], Inf)
    /\ pos' = [pos EXCEPT ![<<b, t>>] = Kernel1FillAt(chunks, b, t, pos[<<b, t>>][2] + tpb)]
    /\ UNCHANGED <<n, aw, trunk, tpb, in1, junk, chunks, snap, graphVars, loadVars>>

Kernel1Avg(b, t) ==
    /\ phase = "kernel1"
    /\ pos[<<b, t>>][1] = "avg"
    /\ Store(b, t, pos[<<b, t>>][2], WindowMean(b, pos[<<b, t>>][2]))
    /\ pos' = [pos EXCEPT ![<<b, t>>] = Kernel1AvgAt(chunks, b, pos[<<b, t>>][2] + tpb)]
    /\ UNCHANGED <<n, aw, trunk, tpb, in1, junk, chunks, snap, graphVars, loadVars>>

ReturnKernel1 ==
    /\ phase = "kernel1"
    /\ AllReturned
    /\ phase' = "between"
    /\ snap' = [snap EXCEPT !.k1 = out, !.log1 = log]
    /\ UNCHANGED <<n, aw, trunk, tpb, in1, out, junk, chunks, pos, log, graphVars, loadVars>>

\* a second call that declares outcols=dict(out=np.float64): a new buffer
ApplyChunksKernel2NewBuffer ==
    /\ phase = "between"
    /\ phase' = "kernel2"
    /\ out' = NewColumn
    /\ chunks' = Kernel2Chunks
    /\ pos' = [th \in Threads(Kernel2Chunks) |-> Kernel2Entry(Kernel2Chunks, th[1], th[2])]
    /\ log' = {}
    /\ UNCHANGED <<n, aw, trunk, tpb, in1, junk, snap, graphVars, loadVars>>

\* incols=['in1', 'out'], outcols=dict(): no new buffer, the kernel gets df['out']
ApplyChunksKernel2 ==
    /\ phase = "between"
    /\ phase' = "kernel2"
    /\ chunks' = Kernel2Chunks
    /\ pos' = [th \in Threads(Kernel2Chunks) |-> Kernel2Entry(Kernel2Chunks, th[1], th[2])]
    /\ log' = {}
    /\ UNCHANGED <<n, aw, trunk, tpb, in1, out, junk, snap, graphVars, loadVars>>

Kernel2Avg(b, t) ==
    /\ phase = "kernel2"
    /\ pos[<<b, t>>][1] = "avg"
    /\ Store(b, t, pos[<<b, t>>][2], WindowMean(b, pos[<<b, t>>][2]))
    /\ pos' = [pos EXCEPT ![<<b, t>>] = Kernel2AvgAt(chunks, b, pos[<<b, t>>][2] + tpb)]
    /\ UNCHANGED <<n, aw, trunk, tpb, in1, junk, chunks, snap, graphVars, loadVars>>

ReturnKernel2 ==
    /\ phase = "kernel2"
    /\ AllReturned
    /\ phase' = "done"
    /\ snap' = [snap EXCEPT !.k2 = out, !.log2 = log]
    /\ UNCHANGED <<n, aw, trunk, tpb, in1, out, junk, chunks, pos, log, graphVars, loadVars>>

NoSnap == [k1 |-> <<>>, log1 |-> {}, k2 |-> <<>>, log2 |-> {}, orig |-> <<>>,
           rows |-> <<>>, chunked |-> <<>>, logc |-> {}, pandas |-> <<>>]

IdleGraph == df = <<>> /\ bestEdge = 0 /\ row = 0 /\ printed = <<>>
IdleLoad == X = <<>> /\ y = <<>> /\ file = <<>> /\ args = <<>> /\ rindices = <<>> /\ ret = <<>>
IdleCudf ==
    /\ n = 0 /\ aw = 0 /\ trunk = 0 /\ tpb = 0 /\ in1 = <<>> /\ out = <<>>
    /\ junk = Num(0) /\ chunks = <<>> /\ pos = <<>> /\ log = {} /\ snap = NoSnap

\* the moving-average cell up to the first apply_chunks call
InitMavg ==
    /\ phase = "start"
    /\ aw \in 1..MaxWindow
    /\ trunk \in (2 * aw)..(2 * aw + MaxSlack)
    /\ n \in aw..MaxLen
    /\ tpb \in 1..MaxTpb
    /\ in1 \in InputColumns(n)
    /\ junk \in GarbageValues
    /\ out = <<>> /\ chunks = <<>> /\ pos = <<>> /\ log = {} /\ snap = NoSnap
    /\ IdleGraph /\ IdleLoad

NextMavg ==
    \/ ApplyChunksKernel1
    \/ \E b \in 1..Len(chunks), t \in 0..(tpb - 1) : Kernel1Fill(b, t)
    \/ \E b \in 1..Len(chunks), t \in 0..(tpb - 1) : Kernel1Avg(b, t)
    \/ ReturnKernel1
    \/ ApplyChunksKernel2
    \/ \E b \in 1..Len(chunks), t \in 0..(tpb - 1) : Kernel2Avg(b, t)
    \/ ReturnKernel2

SpecMavg == InitMavg /\ [][NextMavg]_vars

(***************************************************************************)
(* The array-double cells: apply_rows, apply_chunks and pandas apply.      *)
(***************************************************************************)
\* x * 2.0 (the kernels) and x*2 (the pandas lambda) on a float64
Double(x) == Num(x * 2)

\* a lane numbered by threadIdx alone, the block forgotten
LaneInBlock(b, t) == t

\* a row loop that stops one row early
RowsAtShort(i) == IF i < n - 1 THEN <<"row", i>> ELSE Ret

\* apply_rows: the for-loop over the rows is spread over the whole grid;
\* lane <<b, t>> takes the rows lane, lane + gridsize, ...
Lane(b, t) == (b - 1) * tpb + t
RowsAt(i) == IF i < n THEN <<"row", i>> ELSE Ret

\* a loop bounded by the chunk size asked for, not by in1.size
DoubleAtFullChunk(cs, b, i) == IF i < trunk THEN <<"dbl", i>> ELSE Ret

\* apply_chunks kernel: for i in range(threadIdx, in1.size, blockDim)
DoubleAt(cs, b, i) == IF i < ChunkSize(cs, b) THEN <<"dbl", i>> ELSE Ret

\* chunks=<int>: the chunk size; offsets 0, chunks, 2*chunks, ...
DoubleChunks == RangeList(0, n, trunk)

\* pandas Series.apply: one sequential loop over the rows
PandasAt(i) == IF i < n THEN <<"map", i>> ELSE Ret

ApplyRows(nblk) ==
    /\ phase = "start"
    /\ phase' = "rows"
    /\ out' = NewColumn
    /\ chunks' = [b \in 1..nblk |-> 0]
    /\ pos' = [th \in (1..nblk) \X (0..(tpb - 1)) |-> RowsAt(Lane(th[1], th[2]))]
    /\ log' = {}
    /\ UNCHANGED <<n, aw, trunk, tpb, in1, junk, snap, graphVars, loadVars>>

RowsKernel(b, t) ==
    /\ phase = "rows"
    /\ pos[<<b, t>>][1] = "row"
    /\ Store(b, t, pos[<<b, t>>][2], Double(in1[pos[<<b, t>>][2]]))
    /\ pos' = [pos EXCEPT ![<<b, t>>] = RowsAt(pos[<<b, t>>][2] + Len(chunks) * tpb)]
    /\ UNCHANGED <<n, aw, trunk, tpb, in1, junk, chunks, snap, graphVars, loadVars>>

ReturnRows ==
    /\ phase = "rows"
    /\ AllReturned
    /\ phase' = "rowsdone"
    /\ snap' = [snap EXCEPT !.rows = out]
    /\ UNCHANGED <<n, aw, trunk, tpb, in1, out, junk, chunks, pos, log, graphVars, loadVars>>

ApplyChunksDouble ==
    /\ phase = "rowsdone"
    /\ phase' = "chunks"
    /\ out' = NewColumn
    /\ chunks' = DoubleChunks
    /\ pos' = [th \in Threads(DoubleChunks) |-> DoubleAt(DoubleChunks, th[1], th[2])]
    /\ log' = {}
    /\ UNCHANGED <<n, aw, trunk, tpb, in1, junk, snap, graphVars, loadVars>>

\* a kernel that stores to out[threadIdx] instead of out[i]
ChunksKernelThreadSlot(b, t) ==
    /\ phase = "chunks"
    /\ pos[<<b, t>>][1] = "dbl"
    /\ Store(b, t, t, Double(in1[ChunkStart(chunks, b) + pos[<<b, t>>][2]]))
    /\ pos' = [pos EXCEPT ![<<b, t>>] = DoubleAt(chunks, b, pos[<<b, t>>][2] + tpb)]
    /\ UNCHANGED <<n, aw, trunk, tpb, in1, junk, chunks, snap, graphVars, loadVars>>

ChunksKernel(b, t) ==
    /\ phase = "chunks"
    /\ pos[<<b, t>>][1] = "dbl"
    /\ Store(b, t, pos[<<b, t>>][2],
             Double(in1[ChunkStart(chunks, b) + pos[<<b, t>>][2]]))
    /\ pos' = [pos EXCEPT ![<<b, t>>] = DoubleAt(chunks, b, pos[<<b, t>>][2] + tpb)]
    /\ UNCHANGED <<n, aw, trunk, tpb, in1, junk, chunks, snap, graphVars, loadVars>>

ReturnChunks ==
    /\ phase = "chunks"
    /\ AllReturned
    /\ phase' = "chunksdone"
    /\ snap' = [snap EXCEPT !.chunked = out, !.logc = log]
    /\ UNCHANGED <<n, aw, trunk, tpb, in1, out, junk, chunks, pos, log, graphVars, loadVars>>

\* df = pd.DataFrame(); df['out'] = df.in1.apply(lambda x: x*2)
PandasApply ==
    /\ phase = "chunksdone"
    /\ phase' = "pandas"
    /\ out' = NewColumn
    /\ chunks' = <<0>>
    /\ pos' = [th \in {<<1, 0>>} |-> PandasAt(0)]
    /\ log' = {}
    /\ UNCHANGED <<n, aw, trunk, tpb, in1, junk, snap, graphVars, loadVars>>

PandasRow ==
    /\ phase = "pandas"
    /\ pos[<<1, 0>>][1] = "map"
    /\ Store(1, 0, pos[<<1, 0>>][2], Double(in1[pos[<<1, 0>>][2]]))
    /\ pos' = [pos EXCEPT ![<<1, 0>>] = PandasAt(pos[<<1, 0>>][2] + 1)]
    /\ UNCHANGED <<n, aw, trunk, tpb, in1, junk, chunks, snap, graphVars, loadVars>>

ReturnPandas ==
    /\ phase = "pandas"
    /\ AllReturned
    /\ phase' = "done"
    /\ snap' = [snap EXCEPT !.pandas = out]
    /\ UNCHANGED <<n, aw, trunk, tpb, in1, out, junk, chunks, pos, log, graphVars, loadVars>>

InitDouble ==
    /\ phase = "start"
    /\ aw = 0
    /\ n \in 1..MaxRows
    /\ trunk \in 1..MaxRows
    /\ tpb \in 1..MaxTpb
    /\ in1 \in InputColumns(n)
    /\ junk \in GarbageValues
    /\ out = <<>> /\ chunks = <<>> /\ pos = <<>> /\ log = {}
    /\ snap = [NoSnap EXCEPT !.orig = in1]
    /\ IdleGraph /\ IdleLoad

NextDouble ==
    \/ \E nblk \in 1..MaxBlocks : ApplyRows(nblk)
    \/ \E b \in 1..Len(chunks), t \in 0..(tpb - 1) : RowsKernel(b, t)
    \/ ReturnRows
    \/ ApplyChunksDouble
    \/ \E b \in 1..Len(chunks), t \in 0..(tpb - 1) : ChunksKernel(b, t)
    \/ ReturnChunks
    \/ PandasApply
    \/ PandasRow
    \/ ReturnPandas

SpecDouble == InitDouble /\ [][NextDouble]_vars

(***************************************************************************)
(* Weighted-Jaccard: the search for the most similar pair.                 *)
(* df is the frame returned by cugraph.jaccard_w, rows 0..len(df)-1.       *)
(***************************************************************************)
\* the comparison turned round
Worse(i, best) == df[i].jaccard_coeff < df[best].jaccard_coeff

\* df['jaccard_coeff'][i] > df['jaccard_coeff'][bestEdge]
Better(i, best) == df[i].jaccard_coeff > df[best].jaccard_coeff

\* one iteration of: for i in range(len(df))
BestEdgeStep ==
    /\ phase = "search"
    /\ row < Len(df)
    /\ bestEdge' = IF Better(row + 1, bestEdge + 1) THEN row ELSE bestEdge
    /\ row' = row + 1
    /\ UNCHANGED <<phase, df, printed, cudfVars, loadVars>>

\* print("Vertices " + source + " and " + destination + " ... score: " + coeff)
PrintBest ==
    /\ phase = "search"
    /\ row = Len(df)
    /\ phase' = "printed"
    /\ printed' = <<df[bestEdge + 1].source, df[bestEdge + 1].destination,
                    df[bestEdge + 1].jaccard_coeff>>
    /\ UNCHANGED <<df, bestEdge, row, cudfVars, loadVars>>

\* one row per vertex pair, the pairs all different; any scores
ResultFrames ==
    UNION {{[i \in 1..m |-> [source |-> (i - 1) \div 2, destination |-> i,
                             jaccard_coeff |-> c[i]]] :
              c \in [1..m -> 0..MaxScore]} : m \in 1..MaxEdges}

InitBest ==
    /\ phase = "search"
    /\ df \in ResultFrames
    /\ bestEdge = 0
    /\ row = 0
    /\ printed = <<>>
    /\ IdleCudf /\ IdleLoad

NextBest == BestEdgeStep \/ PrintBest

SpecBest == InitBest /\ [][NextBest]_vars

(***************************************************************************)
(* coordinate_descent_demo: load_data, the mortgage branch.                *)
(* A matrix is a sequence of rows; column c (0-based) of row r is r[c+1].  *)
(***************************************************************************)
NumCols(M) == Len(M[1])

\* [i for i in range(X.shape[1]) if i != c]
ColumnsExcept(M, c) ==
    [k \in 1..(NumCols(M) - 1) |-> IF k - 1 < c THEN k - 1 ELSE k]

\* X[:, cols] with a list of column indices
TakeColumns(M, cols) ==
    [r \in 1..Len(M) |-> [k \in 1..Len(cols) |-> M[r][cols[k] + 1]]]

\* X[:, lo:hi]
SliceColumns(M, lo, hi) ==
    LET top == IF hi < NumCols(M) THEN hi ELSE NumCols(M)
        cnt == IF top > lo THEN top - lo ELSE 0
    IN [r \in 1..Len(M) |-> [k \in 1..cnt |-> M[r][lo + k]]]

\* M[rindices] with a list of row indices
TakeRows(M, idx) == [k \in 1..Len(idx) |-> M[idx[k] + 1]]

\* M[lo:hi] on the rows
SliceRows(M, lo, hi) ==
    LET top == IF hi < Len(M) THEN hi ELSE Len(M)
        cnt == IF top > lo THEN top - lo ELSE 0
    IN [k \in 1..cnt |-> M[lo + k]]

\* the index of the label column named in load_data
LabelColumn == 4

\* the column list that replaces X
KeptColumns(M) == ColumnsExcept(M, LabelColumn)

\* the column slice that y is taken from
LabelSlice(M) == SliceColumns(M, LabelColumn, LabelColumn + 1)

\* train_rows = int(nrows*0.8)
TrainRows(nrows) == (nrows * 8) \div 10

\* with gzip.open(cached) as f: X = np.load(f)
LoadFile ==
    /\ phase = "open"
    /\ phase' = "loaded"
    /\ X' = file
    /\ UNCHANGED <<y, file, args, rindices, ret, cudfVars, graphVars>>

\* X = X[:,[i for i in range(X.shape[1]) if i!=4]]
DropLabelColumn ==
    /\ phase = "loaded"
    /\ phase' = "dropped"
    /\ X' = TakeColumns(X, KeptColumns(X))
    /\ UNCHANGED <<y, file, args, rindices, ret, cudfVars, graphVars>>

\* y = X[:,4:5]
TakeLabel ==
    /\ phase = "dropped"
    /\ phase' = "labelled"
    /\ y' = LabelSlice(X)
    /\ UNCHANGED <<X, file, args, rindices, ret, cudfVars, graphVars>>

\* rindices = np.random.randint(0,X.shape[0]-1,nrows)
\* X = X[rindices,:ncols]; y = y[rindices]
Sample(idx) ==
    /\ phase = "labelled"
    /\ phase' = "sampled"
    /\ rindices' = idx
    /\ X' = SliceColumns(TakeRows(X, idx), 0, args.ncols)
    /\ y' = TakeRows(y, idx)
    /\ UNCHANGED <<file, args, ret, cudfVars, graphVars>>

\* the four frames; the label frames hold column fea0 of y
ReturnFrames ==
    /\ phase = "sampled"
    /\ phase' = "returned"
    /\ ret' = [X_train |-> SliceRows(X, 0, TrainRows(args.nrows)),
               X_test |-> SliceRows(X, TrainRows(args.nrows), Len(X)),
               y_train |-> [k \in 1..TrainRows(args.nrows) |-> y[k][1]],
               y_test |-> [k \in 1..(Len(y) - TrainRows(args.nrows))
                              |-> y[TrainRows(args.nrows) + k][1]]]
    /\ UNCHANGED <<X, y, file, args, rindices, cudfVars, graphVars>>

\* stored arrays: the two candidate label columns hold any 0/1 values, every
\* other cell a value that names its column and row
StoredArrays ==
    UNION {{[r \in 1..rows |-> [c \in 1..cols |->
                IF c - 1 \in {LabelColumn, LabelColumn + 1}
                THEN lab[c - 1][r] ELSE 10 * (c - 1) + r]] :
              lab \in [{LabelColumn, LabelColumn + 1} -> [1..rows -> 0..1]]} :
           rows \in 2..MaxFileRows, cols \in (LabelColumn + 2)..MaxFileCols}

InitLoad ==
    /\ phase = "open"
    /\ file \in StoredArrays
    /\ args \in [nrows : 1..MaxSample, ncols : 1..MaxFileCols]
    /\ X = <<>> /\ y = <<>> /\ rindices = <<>> /\ ret = <<>>
    /\ IdleCudf /\ IdleGraph

NextLoad ==
    \/ LoadFile
    \/ DropLabelColumn
    \/ TakeLabel
    \/ \E idx \in [1..args.nrows -> 0..(Len(X) - 2)] : Sample(idx)
    \/ ReturnFrames

SpecLoad == InitLoad /\ [][NextLoad]_vars

(***************************************************************************)
(* Reference values.                                                       *)
(***************************************************************************)
RECURSIVE SumOver(_, _)
SumOver(col, S) ==
    IF S = {} THEN 0
    ELSE LET j == CHOOSE k \in S : TRUE IN col[j] + SumOver(col, S \ {j})

\* pandas rolling(average_window).mean() at row i >= average_window - 1
RollingMean(i) == Div(SumOver(in1, (i - aw + 1)..i), aw)

Rows == 0..(n - 1)
Stored == {e[3] : e \in log}
StoresTo(g) == {e \in log : e[3] = g}
InOwnChunk(e) ==
    /\ ChunkStart(chunks, e[1]) <= e[3]
    /\ e[3] < ChunkStop(chunks, e[1])

(***************************************************************************)
(* C1: after apply_chunks(kernel1) and apply_chunks(kernel2), every out[i] *)
(* with average_window-1 <= i < data_length is the rolling mean of in1     *)
(* over the window ending at i (for every data_length >= average_window,   *)
(* trunk_size >= 2*average_window and tpb >= 1).                           *)
(***************************************************************************)
C1_TwoPassIsRollingMean ==
    phase = "done" =>
        \A i \in (aw - 1)..(n - 1) : FEq(out[i], RollingMean(i))

(***************************************************************************)
(* C2: after the kernel1 pass, in every chunk exactly the elements at      *)
(* local index < average_window-1 hold +inf, every other element holds the *)
(* mean of the window ending at it, and every element of the chunk was     *)
(* written exactly once.                                                   *)
(***************************************************************************)
C2_Kernel1PerChunk ==
    phase = "between" =>
        \A b \in 1..Len(chunks) : \A i \in 0..(ChunkSize(chunks, b) - 1) :
            LET g == ChunkStart(chunks, b) + i IN
            /\ IsInf(out[g]) <=> i < aw - 1
            /\ i >= aw - 1 => FEq(out[g], RollingMean(g))
            /\ Cardinality(StoresTo(g)) = 1

C2_Witness ==
    /\ phase = "between"
    /\ aw >= 2
    /\ Len(chunks) >= 3
    /\ ChunkSize(chunks, 2) >= aw
    /\ IsInf(out[ChunkStart(chunks, 2)])
    /\ ~IsInf(out[ChunkStop(chunks, 2) - 1])

(***************************************************************************)
(* C3: the kernel2 pass works on the existing out column: it stores only   *)
(* inside the last average_window positions of each of its chunks, every   *)
(* element it does not store to keeps its value, every finite mean of      *)
(* kernel1 keeps its value, and rows 0..average_window-2 still hold +inf.  *)
(***************************************************************************)
C3_Kernel2Frame ==
    phase \in {"kernel2", "done"} =>
        /\ \A e \in log :
              /\ InOwnChunk(e)
              /\ e[3] >= ChunkStop(chunks, e[1]) - aw
        /\ \A g \in Rows \ Stored : out[g] = snap.k1[g]
        /\ \A g \in Rows : ~IsInf(snap.k1[g]) => FEq(out[g], snap.k1[g])
        /\ \A g \in 0..(aw - 2) : IsInf(out[g])

C3_Witness ==
    /\ phase = "done"
    /\ aw >= 2
    /\ \E g \in Rows : IsInf(snap.k1[g]) /\ ~IsInf(out[g])
    /\ \E g \in Stored : ~IsInf(snap.k1[g])

(***************************************************************************)
(* C10: within one pass of the moving average no out index is written by   *)
(* two different threads and a block writes only indices of its own chunk, *)
(* so the column after the kernel1 pass is the same for every interleaving.*)
(***************************************************************************)
C10_NoRaceOwnChunk ==
    /\ phase \in {"kernel1", "between", "kernel2", "done", "fault"} =>
          /\ \A e \in log : InOwnChunk(e)
          /\ \A e1, e2 \in log : e1[3] = e2[3] => e1 = e2
    /\ phase = "between" =>
          \A b \in 1..Len(chunks) : \A i \in 0..(ChunkSize(chunks, b) - 1) :
              out[ChunkStart(chunks, b) + i] =
                  IF i < aw - 1 THEN Inf
                  ELSE WindowMean(b, i)

(***************************************************************************)
(* C4: after apply_rows with the doubling kernel every row i has           *)
(* out[i] = 2 * in1[i], in1 is unchanged and sum(out) = 2 * sum(in1).      *)
(***************************************************************************)
C4_ApplyRowsDoubles ==
    phase = "rowsdone" =>
        /\ \A i \in Rows : FEq(out[i], Num(2 * in1[i]))
        /\ in1 = snap.orig
        /\ SumOver([i \in Rows |-> out[i][1]], Rows) = 2 * SumOver(in1, Rows)

C4_Witness ==
    /\ phase = "rowsdone"
    /\ n > Len(chunks) * tpb
    /\ Len(chunks) = 2
    /\ in1[n - 1] > 0

(***************************************************************************)
(* C5: after apply_chunks with the doubling kernel every index i of every  *)
(* chunk, the shorter last chunk included, was written by exactly one      *)
(* thread, thread i mod blockDim of the chunk's block, with 2 * in1; the   *)
(* chunks cover the column and nothing else was written.                   *)
(***************************************************************************)
C5_ChunkStride ==
    phase = "chunksdone" =>
        /\ \A b \in 1..Len(chunks) : \A i \in 0..(ChunkSize(chunks, b) - 1) :
              LET g == ChunkStart(chunks, b) + i IN
              /\ StoresTo(g) = {<<b, i % tpb, g>>}
              /\ FEq(out[g], Num(2 * in1[g]))
        /\ \A g \in Rows : \E b \in 1..Len(chunks) :
              ChunkStart(chunks, b) <= g /\ g < ChunkStop(chunks, b)
        /\ Stored = Rows

C5_Witness ==
    /\ phase = "chunksdone"
    /\ Len(chunks) >= 2
    /\ ChunkSize(chunks, Len(chunks)) < trunk
    /\ tpb >= 2
    /\ trunk > tpb

(***************************************************************************)
(* C6: the columns produced by the apply_rows kernel, by the apply_chunks  *)
(* kernel and by pandas apply are equal element by element.                *)
(***************************************************************************)
C6_ThreeWaysAgree ==
    phase = "done" =>
        /\ DOMAIN snap.rows = Rows
        /\ DOMAIN snap.chunked = Rows
        /\ DOMAIN snap.pandas = Rows
        /\ \A i \in Rows :
              /\ FEq(snap.rows[i], snap.chunked[i])
              /\ FEq(snap.chunked[i], snap.pandas[i])

C6_Witness ==
    /\ phase = "done"
    /\ n >= 3
    /\ trunk < n
    /\ tpb >= 2
    /\ snap.pandas[n - 1] # junk

(***************************************************************************)
(* C7: the order in which rows are processed does not matter: at every     *)
(* point of an apply_rows or apply_chunks launch the column is determined  *)
(* by the set of rows processed so far (a processed row holds 2 * in1, any *)
(* other row is untouched), and when all threads have returned every row   *)
(* has been processed.                                                     *)
(***************************************************************************)
C7_OrderIndependent ==
    phase \in {"rows", "rowsdone", "chunks", "chunksdone"} =>
        /\ \A g \in Rows :
              out[g] = IF g \in Stored THEN Num(2 * in1[g]) ELSE junk
        /\ AllReturned => Stored = Rows

C7_Witness ==
    /\ phase = "chunks"
    /\ \E g1, g2 \in Rows : g1 < g2 /\ g2 \in Stored /\ g1 \notin Stored
    /\ \E e1, e2 \in log : e1[1] # e2[1]
    /\ \E e1, e2 \in log : e1[2] # e2[2]

(***************************************************************************)
(* C8: after the loop the row bestEdge has the largest jaccard_coeff of    *)
(* the frame, and the vertices and score printed are those of that row.    *)
(***************************************************************************)
C8_BestEdgeIsMax ==
    phase = "printed" =>
        /\ \A i \in 1..Len(df) :
              df[bestEdge + 1].jaccard_coeff >= df[i].jaccard_coeff
        /\ \E i \in 1..Len(df) :
              /\ \A k \in 1..Len(df) : df[i].jaccard_coeff >= df[k].jaccard_coeff
              /\ printed = <<df[i].source, df[i].destination, df[i].jaccard_coeff>>
              /\ i = bestEdge + 1

C8_Witness ==
    /\ phase = "printed"
    /\ Len(df) >= 3
    /\ bestEdge = 1
    /\ df[3].jaccard_coeff = df[2].jaccard_coeff
    /\ df[1].jaccard_coeff < df[2].jaccard_coeff

(***************************************************************************)
(* C9: in the mortgage branch the label returned by load_data is column    *)
(* index 4 of the array loaded from the file, at the sampled rows.         *)
(***************************************************************************)
C9_LabelIsColumnFour ==
    phase = "returned" =>
        ret.y_train \o ret.y_test =
            [k \in 1..Len(rindices) |-> file[rindices[k] + 1][LabelColumn + 1]]

====
